---- MODULE Spec2Model ----
(***************************************************************************)
(* The JNI calling surface declared by ffx_numerics_fft_CLFFT.h.           *)
(*                                                                         *)
(* The header is a table of six prototypes.  Each prototype carries two    *)
(* independent descriptions of the same entry point: the javah comment     *)
(* (Method, Signature: the managed side's view) and the C declaration      *)
(* (return type, symbol, parameter list: the native side's view).  The     *)
(* model keeps both and lets a managed caller invoke the entry points: the *)
(* caller pushes values typed by the Signature, the native side reads them *)
(* through the C parameter types, and the result travels back the same way.*)
(*                                                                         *)
(* An integer is a little-endian sequence of 16-bit limbs: a jlong has 4   *)
(* limbs (64 bits), a jint has 2 (32 bits).                                *)
(***************************************************************************)
EXTENDS Integers, Sequences, FiniteSets

VARIABLES pc, call, libOut, ret, fileState, ncalls

vars == <<pc, call, libOut, ret, fileState, ncalls>>

\* Number of native calls one behaviour of the model makes.
MaxCalls == 2

(***************************************************************************)
(* The declarations, in file order.                                        *)
(***************************************************************************)

\* One prototype: the comment's Method and Signature, then the C declaration.
Prototype(method, sigArgs, sigRet, cret, symbol, params, hasBody) ==
  [method |-> method, sigArgs |-> sigArgs, sigRet |-> sigRet,
   cret |-> cret, symbol |-> symbol, params |-> params, hasBody |-> hasBody]

\* DeclSetup with a body written in the header.
DeclSetupInline ==
  Prototype("do_clfftSetup", <<>>, "J",
            "jlong", "Java_ffx_numerics_fft_CLFFT_do_1clfftSetup",
            <<"JNIEnv*", "jclass">>, TRUE)

DeclSetup ==
  Prototype("do_clfftSetup", <<>>, "J",
            "jlong", "Java_ffx_numerics_fft_CLFFT_do_1clfftSetup",
            <<"JNIEnv*", "jclass">>, FALSE)

\* DeclCreateDefaultPlan returning the library's status, as clfftCreateDefaultPlan does.
DeclCreateDefaultPlanStatus ==
  Prototype("do_clfftCreateDefaultPlan", <<"J", "J", "I", "I", "I", "I">>, "I",
            "jint", "Java_ffx_numerics_fft_CLFFT_do_1clfftCreateDefaultPlan",
            <<"JNIEnv*", "jclass", "jlong", "jlong", "jint", "jint", "jint", "jint">>,
            FALSE)

DeclCreateDefaultPlan ==
  Prototype("do_clfftCreateDefaultPlan", <<"J", "J", "I", "I", "I", "I">>, "J",
            "jlong", "Java_ffx_numerics_fft_CLFFT_do_1clfftCreateDefaultPlan",
            <<"JNIEnv*", "jclass", "jlong", "jlong", "jint", "jint", "jint", "jint">>,
            FALSE)

\* DeclSetPlanPrecision bound as an instance method.
DeclSetPlanPrecisionInstance ==
  Prototype("do_clfftSetPlanPrecision", <<"J", "I">>, "I",
            "jint", "Java_ffx_numerics_fft_CLFFT_do_1clfftSetPlanPrecision",
            <<"JNIEnv*", "jobject", "jlong", "jint">>, FALSE)

DeclSetPlanPrecision ==
  Prototype("do_clfftSetPlanPrecision", <<"J", "I">>, "I",
            "jint", "Java_ffx_numerics_fft_CLFFT_do_1clfftSetPlanPrecision",
            <<"JNIEnv*", "jclass", "jlong", "jint">>, FALSE)

\* DeclSetLayout whose C parameter list has drifted from its Signature comment.
DeclSetLayoutMismatch ==
  Prototype("do_clfftSetLayout", <<"J", "I", "I">>, "I",
            "jint", "Java_ffx_numerics_fft_CLFFT_do_1clfftSetLayout",
            <<"JNIEnv*", "jclass", "jlong", "jint", "jlong">>, FALSE)

DeclSetLayout ==
  Prototype("do_clfftSetLayout", <<"J", "I", "I">>, "I",
            "jint", "Java_ffx_numerics_fft_CLFFT_do_1clfftSetLayout",
            <<"JNIEnv*", "jclass", "jlong", "jint", "jint">>, FALSE)

\* DeclExecuteTransform with the queue handle narrowed to an int.
DeclExecuteTransformQueueInt ==
  Prototype("do_clfftExecuteTransform", <<"J", "I", "I", "J", "J">>, "I",
            "jint", "Java_ffx_numerics_fft_CLFFT_do_1clfftExecuteTransform",
            <<"JNIEnv*", "jclass", "jlong", "jint", "jint", "jlong", "jlong">>,
            FALSE)

\* DeclExecuteTransform with the direction after the queue.
DeclExecuteTransformSwapped ==
  Prototype("do_clfftExecuteTransform", <<"J", "J", "I", "J", "J">>, "I",
            "jint", "Java_ffx_numerics_fft_CLFFT_do_1clfftExecuteTransform",
            <<"JNIEnv*", "jclass", "jlong", "jlong", "jint", "jlong", "jlong">>,
            FALSE)

DeclExecuteTransform ==
  Prototype("do_clfftExecuteTransform", <<"J", "I", "J", "J", "J">>, "I",
            "jint", "Java_ffx_numerics_fft_CLFFT_do_1clfftExecuteTransform",
            <<"JNIEnv*", "jclass", "jlong", "jint", "jlong", "jlong", "jlong">>,
            FALSE)

\* DeclDestroyPlan returning a long.
DeclDestroyPlanLong ==
  Prototype("do_clfftDestroyPlan", <<"J">>, "J",
            "jlong", "Java_ffx_numerics_fft_CLFFT_do_1clfftDestroyPlan",
            <<"JNIEnv*", "jclass", "jlong">>, FALSE)

DeclDestroyPlan ==
  Prototype("do_clfftDestroyPlan", <<"J">>, "I",
            "jint", "Java_ffx_numerics_fft_CLFFT_do_1clfftDestroyPlan",
            <<"JNIEnv*", "jclass", "jlong">>, FALSE)

\* The table with a seventh prototype, for the library's clfftTeardown.
DeclarationsWithTeardown ==
  <<DeclSetup, DeclCreateDefaultPlan, DeclSetPlanPrecision, DeclSetLayout,
    DeclExecuteTransform, DeclDestroyPlan,
    Prototype("do_clfftTeardown", <<>>, "I",
              "jint", "Java_ffx_numerics_fft_CLFFT_do_1clfftTeardown",
              <<"JNIEnv*", "jclass">>, FALSE)>>

Declarations ==
  <<DeclSetup, DeclCreateDefaultPlan, DeclSetPlanPrecision, DeclSetLayout,
    DeclExecuteTransform, DeclDestroyPlan>>

\* Objects defined at file scope (variables, locks, ownership records): none.
FileVariables == {}

DeclaredMethods == {Declarations[i].method : i \in 1..Len(Declarations)}

DeclOf(m) ==
  Declarations[CHOOSE i \in 1..Len(Declarations) : Declarations[i].method = m]

(***************************************************************************)
(* Types and values on the two sides of the boundary.                      *)
(***************************************************************************)

\* Limbs of the managed type a Signature letter names: J is long, I is int.
SigLimbs(letter) == CASE letter = "J" -> 4 [] letter = "I" -> 2

\* Limbs of a C parameter or return type.
CLimbs(ctype) == CASE ctype = "jlong" -> 4 [] ctype = "jint" -> 2

\* The values the model draws: zero, a pointer-sized value whose upper
\* 32 bits are not zero, and minus one.
JLongs == {<<0, 0, 0, 0>>, <<4096, 22, 32767, 0>>, <<65535, 65535, 65535, 65535>>}

\* Zero, one and minus one.
JInts == {<<0, 0>>, <<1, 0>>, <<65535, 65535>>}

ValuesOfLimbs(n) == IF n = 4 THEN JLongs ELSE JInts

\* All argument tuples a caller can push for a Signature's argument letters.
RECURSIVE ArgTuples(_)
ArgTuples(letters) ==
  IF letters = <<>> THEN {<<>>}
  ELSE {<<v>> \o rest : v \in ValuesOfLimbs(SigLimbs(Head(letters))),
                        rest \in ArgTuples(Tail(letters))}

\* A value of one width read through a type of n limbs: the low limbs are
\* the value's; limbs the value does not have are whatever the slot held.
ReadAs(v, n, junk) == [i \in 1..n |-> IF i <= Len(v) THEN v[i] ELSE junk[i]]

\* What the native side receives: one value per C parameter after the
\* JNIEnv* and the receiver, read through that parameter's type.
Received(d, sent, junk) ==
  [i \in 1..(Len(d.params) - 2) |->
     ReadAs(IF i <= Len(sent) THEN sent[i] ELSE junk, CLimbs(d.params[i + 2]), junk)]

\* The receiver the JVM passes as second argument: the class for a static
\* native (jclass), the instance for an instance native (jobject).
Receiver(d) == IF d.params[2] = "jclass" THEN "class" ELSE "object"

\* Where a call to the entry point lands: in a body of this file, or in a
\* definition supplied elsewhere.
Resolve(d) == IF d.hasBody THEN "header" ELSE "external"

\* A native definition that interprets the status: any failure becomes 1.
NativeBodyInterprets(d, produced) ==
  IF d.cret = "jint" /\ produced # <<0, 0>> THEN <<1, 0>> ELSE produced

\* The native definition's result, given what the external library produced.
NativeBody(d, produced) == produced

NoCall == [method |-> "", env |-> "", receiver |-> "", impl |-> "",
           sent |-> <<>>, args |-> <<>>]

NoValue == <<>>

NoReturn == [method |-> "", value |-> NoValue]

(***************************************************************************)
(* The state machine.                                                      *)
(***************************************************************************)

Init ==
  /\ pc = "managed"
  /\ call = NoCall
  /\ libOut = NoValue
  /\ ret = NoReturn
  /\ fileState = [v \in FileVariables |-> "initial"]
  /\ ncalls = 0

\* The managed caller invokes native method m.
Invoke(m) ==
  /\ pc = "managed"
  /\ ncalls < MaxCalls
  /\ LET d == DeclOf(m) IN
       \E sent \in ArgTuples(d.sigArgs), junk \in JLongs :
         /\ call' = [method |-> m, env |-> d.params[1], receiver |-> Receiver(d),
                     impl |-> Resolve(d), sent |-> sent,
                     args |-> Received(d, sent, junk)]
         /\ fileState' = IF Resolve(d) = "header"
                           THEN [v \in FileVariables |-> "touched"]
                           ELSE fileState
  /\ pc' = "native"
  /\ libOut' = NoValue
  /\ ret' = NoReturn
  /\ ncalls' = ncalls + 1

\* The native side finishes: the external library produced a value of the
\* declared C return type, and the caller sees it through the Signature's
\* return type.  The call's frame is gone once it has returned.
Return ==
  /\ pc = "native"
  /\ LET d == DeclOf(call.method) IN
       \E produced \in ValuesOfLimbs(CLimbs(d.cret)), junk \in JLongs :
         /\ libOut' = produced
         /\ ret' = [method |-> call.method,
                    value |-> ReadAs(NativeBody(d, produced), SigLimbs(d.sigRet), junk)]
  /\ pc' = "managed"
  /\ call' = NoCall
  /\ UNCHANGED <<fileState, ncalls>>

Next ==
  \/ \E m \in DeclaredMethods : Invoke(m)
  \/ Return

Spec == Init /\ [][Next]_vars

TypeOK ==
  /\ pc \in {"managed", "native"}
  /\ ncalls \in 0..MaxCalls
  /\ call.method \in DeclaredMethods \cup {""}
  /\ ret.method \in DeclaredMethods \cup {""}
  /\ Len(ret.value) \in {0, 2, 4}

(***************************************************************************)
(* The interface as section 6 of the specification tabulates it.           *)
(***************************************************************************)

Setup == "do_clfftSetup"
CreateDefaultPlan == "do_clfftCreateDefaultPlan"
SetPlanPrecision == "do_clfftSetPlanPrecision"
SetLayout == "do_clfftSetLayout"
ExecuteTransform == "do_clfftExecuteTransform"
DestroyPlan == "do_clfftDestroyPlan"

SixEntryPoints ==
  {Setup, CreateDefaultPlan, SetPlanPrecision, SetLayout, ExecuteTransform, DestroyPlan}

\* Entry points the table gives a status code as output.
StatusOps == {SetPlanPrecision, SetLayout, ExecuteTransform, DestroyPlan}

\* Entry points the table gives a handle as output.
HandleOps == {Setup, CreateDefaultPlan}

\* Argument positions the table gives a handle (context, dimension, plan,
\* queue, input buffer, output buffer).
HandleInputs(m) ==
  CASE m = CreateDefaultPlan -> {1, 2}
    [] m = SetPlanPrecision -> {1}
    [] m = SetLayout -> {1}
    [] m = ExecuteTransform -> {1, 3, 4, 5}
    [] m = DestroyPlan -> {1}
    [] OTHER -> {}

\* Argument positions the table gives an option code (precision, input
\* layout, output layout, direction).
CodeInputs(m) ==
  CASE m = SetPlanPrecision -> {2}
    [] m = SetLayout -> {2, 3}
    [] m = ExecuteTransform -> {2}
    [] OTHER -> {}

\* Position i of the call in flight carries n limbs on both sides.
Crosses(i, n) ==
  /\ i \in DOMAIN call.sent /\ Len(call.sent[i]) = n
  /\ i \in DOMAIN call.args /\ Len(call.args[i]) = n

InNative(m) == pc = "native" /\ call.method = m

Returned(m) == pc = "managed" /\ ret.method = m

\* A handle whose upper 32 bits are not zero, and the status minus one.
WideHandle == <<4096, 22, 32767, 0>>
MinusOne == <<65535, 65535>>

(***************************************************************************)
(* C1: the interface declares exactly six entry points and no others:      *)
(* setup, create default plan, set plan precision, set layout, execute     *)
(* transform and destroy plan.  The table has six prototypes, their        *)
(* methods are those six, and no call ever runs under another method.      *)
(***************************************************************************)
C1_ExactlySixEntryPoints ==
  /\ Len(Declarations) = 6
  /\ DeclaredMethods = SixEntryPoints
  /\ pc = "native" => call.method \in SixEntryPoints
  /\ ret.method # "" => ret.method \in SixEntryPoints

C1_Witness == InNative(DestroyPlan) /\ ncalls = 2

(***************************************************************************)
(* C2: in every call, every handle argument crosses the boundary as a      *)
(* 64-bit integer (4 limbs pushed, 4 limbs read) and every option code as  *)
(* a 32-bit integer (2 limbs pushed, 2 limbs read); a returned handle is   *)
(* produced and seen as a 64-bit integer.                                  *)
(***************************************************************************)
C2_HandlesAre64CodesAre32 ==
  /\ pc = "native" =>
       /\ \A i \in HandleInputs(call.method) : Crosses(i, 4)
       /\ \A i \in CodeInputs(call.method) : Crosses(i, 2)
  /\ (ret.method \in HandleOps) => Len(libOut) = 4 /\ Len(ret.value) = 4

C2_Witness ==
  /\ InNative(ExecuteTransform)
  /\ call.args = <<WideHandle, MinusOne, WideHandle, WideHandle, WideHandle>>

(***************************************************************************)
(* C3: create default plan takes, in this order, two handles (context,     *)
(* dimension), a rank and the dimension sizes, the rank and every size a   *)
(* 32-bit integer, and returns a handle (64 bits), not a status code.      *)
(***************************************************************************)
C3_CreateDefaultPlanShape ==
  /\ InNative(CreateDefaultPlan) =>
       /\ Len(call.args) >= 4
       /\ Crosses(1, 4) /\ Crosses(2, 4) /\ Crosses(3, 2)
       /\ \A i \in 4..Len(call.args) : Crosses(i, 2)
  /\ Returned(CreateDefaultPlan) => Len(libOut) = 4 /\ Len(ret.value) = 4

C3_Witness == Returned(CreateDefaultPlan) /\ ret.value = WideHandle

(***************************************************************************)
(* C4: execute transform takes, in this order, a plan handle, a direction  *)
(* code, a queue handle, an input buffer handle and an output buffer       *)
(* handle (64, 32, 64, 64, 64 bits) and returns a 32-bit status code.      *)
(***************************************************************************)
C4_ExecuteTransformShape ==
  /\ InNative(ExecuteTransform) =>
       /\ Len(call.args) = 5
       /\ Crosses(1, 4) /\ Crosses(2, 2) /\ Crosses(3, 4)
       /\ Crosses(4, 4) /\ Crosses(5, 4)
  /\ Returned(ExecuteTransform) => Len(libOut) = 2 /\ Len(ret.value) = 2

C4_Witness ==
  /\ InNative(ExecuteTransform)
  /\ call.args[2] = <<1, 0>>
  /\ call.args[3] = WideHandle
  /\ ncalls = 2

(***************************************************************************)
(* C5: set plan precision, set layout, execute transform and destroy plan  *)
(* each take the plan handle first and return a 32-bit status code; setup  *)
(* takes no inputs and returns a handle; setup and create default plan are *)
(* the only entry points that return a handle.                             *)
(***************************************************************************)
C5_PlanFirstStatusBack ==
  /\ (pc = "native" /\ call.method \in StatusOps) => Crosses(1, 4)
  /\ InNative(Setup) => call.sent = <<>> /\ call.args = <<>>
  /\ ret.method \in StatusOps => Len(libOut) = 2 /\ Len(ret.value) = 2
  /\ ret.method = Setup => Len(libOut) = 4 /\ Len(ret.value) = 4
  /\ ret.method # "" => (Len(ret.value) # 2 <=> ret.method \in HandleOps)

C5_Witness == Returned(DestroyPlan) /\ ret.value = MinusOne /\ ncalls = 2

(***************************************************************************)
(* C6: status codes pass through: whenever an entry point that returns a   *)
(* status code has returned, the value the caller sees is the value the    *)
(* external library produced.                                              *)
(***************************************************************************)
C6_StatusPassedThrough ==
  ret.method \in StatusOps => ret.value = libOut

C6_Witness == Returned(SetLayout) /\ libOut = MinusOne /\ ret.value = MinusOne

(***************************************************************************)
(* C7: the file is declaration-only: no prototype has a body, the file     *)
(* owns no variable, and every call lands outside the file, so the state   *)
(* the file owns is empty and stays as it was.                             *)
(***************************************************************************)
C7_DeclarationOnly ==
  /\ \A i \in 1..Len(Declarations) : ~Declarations[i].hasBody
  /\ DOMAIN fileState = {}
  /\ pc = "native" => call.impl = "external"

C7_Witness == InNative(Setup) /\ call.impl = "external" /\ ncalls = 2

(***************************************************************************)
(* C8: for each prototype the Signature comment agrees with the C          *)
(* declaration: after JNIEnv* and jclass there is one jlong per J and one  *)
(* jint per I, in order, and the return type is jlong for J and jint for   *)
(* I; so the native side reads exactly the values the caller pushed.       *)
(***************************************************************************)
LetterOf(ctype) == CASE ctype = "jlong" -> "J" [] ctype = "jint" -> "I" [] OTHER -> "?"

Agrees(d) ==
  /\ Len(d.params) = Len(d.sigArgs) + 2
  /\ d.params[1] = "JNIEnv*"
  /\ d.params[2] = "jclass"
  /\ \A i \in 1..Len(d.sigArgs) : LetterOf(d.params[i + 2]) = d.sigArgs[i]
  /\ LetterOf(d.cret) = d.sigRet

C8_SignatureAgreesWithDeclaration ==
  /\ \A i \in 1..Len(Declarations) : Agrees(Declarations[i])
  /\ pc = "native" => call.args = call.sent

C8_Witness ==
  /\ InNative(CreateDefaultPlan)
  /\ call.sent = <<WideHandle, <<0, 0, 0, 0>>, <<1, 0>>, MinusOne, <<0, 0>>, <<1, 0>>>>
  /\ call.args = call.sent

====
